---- MODULE Spec2Model ----
(***************************************************************************)
(* ClipForge AI: the top-level application state (gallery, selection,      *)
(* workflow step, API key), the Creative Studio and Veo Studio views and   *)
(* the three remote jobs of services/geminiService.ts.                     *)
(*                                                                         *)
(* JavaScript strings that the code inspects (trim, startsWith, includes,  *)
(* JSON.parse) are sequences of tokens, so that those functions are        *)
(* computed and not assumed.  A frame carries the fields the handlers read *)
(* (id, isGenerated).  Left out, as payload that no handler branches on:   *)
(* dataUrl, createdAt, width, height, the prompt texts sent to the         *)
(* service, and the frame's timestamp with the seek position of App, which *)
(* only position the video element.                                        *)
(***************************************************************************)
EXTENDS Integers, Sequences, FiniteSets, TLC

VARIABLES
    frames,          \* App: useState<CapturedFrame[]>
    selectedFrame,   \* App: useState<CapturedFrame | null>
    currentStep,     \* App: useState<WorkflowStep>
    apiKey,          \* App: useState<string>, also the value of the key input
    showKeyInput,    \* App: key editor open
    keyError,        \* App: useState<string | null>
    storedKey,       \* localStorage['user_gemini_api_key']
    envKey,          \* process.env.API_KEY (fixed at build time)
    now,             \* Date.now()
    videoSrc,        \* VideoPlayer: useState<string | null>
    alerts,          \* window.alert: the notices shown so far
    englishPrompt,   \* CreativeStudio state
    chineseDesc,
    csAppState,
    csError,
    generatedImages,
    imageCount,
    jobs,            \* the calls of geminiService functions in flight, in start order
    settled,         \* history: the call that returned or threw last
    veoAppState,     \* VeoStudio state
    veoError,
    generatedVideo,
    veoAspect,
    startFrame,
    endFrame,
    activeSlot

appVars == <<frames, selectedFrame, currentStep>>
keyVars == <<apiKey, showKeyInput, keyError, storedKey, envKey>>
envVars == <<now, videoSrc, alerts>>
csVars  == <<englishPrompt, chineseDesc, csAppState, csError, generatedImages, imageCount>>
veoVars == <<veoAppState, veoError, generatedVideo, veoAspect, startFrame, endFrame, activeSlot>>
jobVars == <<jobs, settled>>
vars    == <<appVars, keyVars, envVars, csVars, veoVars, jobVars>>

(***************************************************************************)
(* Bounds of the model.                                                    *)
(***************************************************************************)
MaxClock  == 1      \* Date.now() takes the values 0..MaxClock
MaxFrames == 3      \* the gallery holds at most MaxFrames frames
MaxJobs   == 2      \* at most MaxJobs service calls are in flight at a time
MaxAlerts == 2      \* the alerts of failed captures are counted up to MaxAlerts
MaxPolls  == 3      \* a video job issues at most MaxPolls status polls

\* Math.random().toString(36).substr(2, 9): two sample suffixes
RandSuffixes == {"a", "b"}

(***************************************************************************)
(* Strings as token sequences.                                             *)
(***************************************************************************)
RECURSIVE TrimStart(_)
TrimStart(s) == IF s # <<>> /\ Head(s) = " " THEN TrimStart(Tail(s)) ELSE s

RECURSIVE TrimEnd(_)
TrimEnd(s) ==
    IF s # <<>> /\ s[Len(s)] = " " THEN TrimEnd(SubSeq(s, 1, Len(s) - 1)) ELSE s

\* String.prototype.trim
Trim(s) == TrimEnd(TrimStart(s))

\* String.prototype.startsWith, for a one-token prefix
StartsWith(s, tok) == s # <<>> /\ Head(s) = tok

\* String.prototype.includes, for a one-token needle
Includes(s, tok) == \E i \in 1..Len(s) : s[i] = tok

\* String.prototype.includes, for a needle of several tokens
IncludesSeq(s, needle) ==
    \E i \in 1..Len(s) :
        /\ i + Len(needle) - 1 <= Len(s)
        /\ SubSeq(s, i, i + Len(needle) - 1) = needle

(***************************************************************************)
(* Frames and ids.                                                         *)
(***************************************************************************)
NoId    == [p |-> "none", t |-> 0, r |-> "-"]
NoFrame == [id |-> NoId, isGenerated |-> FALSE]

\* VideoPlayer.generateId / CreativeStudio.generateId: `${prefix}-${Date.now()}-${random}`
generateId(prefix, rnd) == [p |-> prefix, t |-> now, r |-> rnd]

HasId(fs, id) == \E i \in 1..Len(fs) : fs[i].id = id

RECURSIVE FilterOutId(_, _)
FilterOutId(fs, id) ==
    IF fs = <<>> THEN <<>>
    ELSE IF Head(fs).id # id THEN <<Head(fs)>> \o FilterOutId(Tail(fs), id)
         ELSE FilterOutId(Tail(fs), id)

(***************************************************************************)
(* The API key form (App.tsx).                                             *)
(***************************************************************************)
NoKey      == <<>>
NoKeyError == "none"

\* What the user may type or paste into the key input
KeyInputs ==
    { <<>>, <<" ">>, <<"AIza", "k1">>, <<" ", "AIza", "k2", " ">>, <<"not-a-key">> }

\* The keys localStorage may hold at startup: none, or one saved earlier
StoredAtStart == { NoKey, <<"AIza", "k0">> }

\* The environment-level default key of the build
EnvKeys == { NoKey, <<"AIza", "env">> }

\* A variant that persists whatever is left after trimming
handleSaveApiKey_NoFormatCheck ==
    /\ showKeyInput
    /\ storedKey' = Trim(apiKey)
    /\ apiKey' = Trim(apiKey)
    /\ showKeyInput' = FALSE
    /\ keyError' = NoKeyError
    /\ UNCHANGED <<appVars, envKey, envVars, csVars, veoVars, jobVars>>

handleSaveApiKey ==
    /\ showKeyInput
    /\ LET trimmedKey == Trim(apiKey) IN
         IF trimmedKey = <<>>
         THEN /\ keyError' = "empty"
              /\ UNCHANGED <<apiKey, showKeyInput, storedKey>>
         ELSE IF ~StartsWith(trimmedKey, "AIza")
         THEN /\ keyError' = "format"
              /\ UNCHANGED <<apiKey, showKeyInput, storedKey>>
         ELSE /\ storedKey' = trimmedKey
              /\ apiKey' = trimmedKey
              /\ showKeyInput' = FALSE
              /\ keyError' = NoKeyError
    /\ UNCHANGED <<appVars, envKey, envVars, csVars, veoVars, jobVars>>

\* A variant that closes the editor and keeps what was typed
handleCancelKeyInput_KeepDraft ==
    /\ showKeyInput
    /\ showKeyInput' = FALSE
    /\ keyError' = NoKeyError
    /\ UNCHANGED <<appVars, apiKey, storedKey, envKey, envVars, csVars, veoVars, jobVars>>

handleCancelKeyInput ==
    /\ showKeyInput
    /\ showKeyInput' = FALSE
    /\ keyError' = NoKeyError
    /\ apiKey' = storedKey
    /\ UNCHANGED <<appVars, storedKey, envKey, envVars, csVars, veoVars, jobVars>>

\* The "Set API Key" / "API Key Configured" button
OpenKeyInput ==
    /\ ~showKeyInput
    /\ showKeyInput' = TRUE
    /\ UNCHANGED <<appVars, apiKey, keyError, storedKey, envKey, envVars, csVars, veoVars, jobVars>>

\* onChange of the key input
TypeKey(v) ==
    /\ showKeyInput
    /\ v # apiKey
    /\ apiKey' = v
    /\ keyError' = NoKeyError
    /\ UNCHANGED <<appVars, showKeyInput, storedKey, envKey, envVars, csVars, veoVars, jobVars>>

(***************************************************************************)
(* Errors raised by the remote service or by the code.                     *)
(***************************************************************************)
NoErr         == [status |-> -1, code |-> -1, message |-> <<>>]
ErrMissingKey == [status |-> 0, code |-> 0, message |-> <<"API", "Key", "is", "missing.">>]
Err403Status  == [status |-> 403, code |-> 0, message |-> <<"Forbidden">>]
Err403Code    == [status |-> 0, code |-> 403, message |-> <<"PERMISSION_DENIED">>]
Err403Message == [status |-> 0, code |-> 0, message |-> <<"got", "status:", "403", "Forbidden">>]
Err500        == [status |-> 500, code |-> 0, message |-> <<"Internal", "error">>]
ErrNoMessage  == [status |-> 0, code |-> 0, message |-> <<>>]
ErrNoText     == [status |-> 0, code |-> 0, message |-> <<"No", "text", "response">>]
ErrNoContent  == [status |-> 0, code |-> 0, message |-> <<"No", "content", "generated.">>]
ErrNoImage    == [status |-> 0, code |-> 0, message |-> <<"No", "image", "data", "found">>]

\* What a call of the vendor SDK may throw
RemoteErrors == { Err403Status, Err403Code, Err403Message, Err500, ErrNoMessage }

(***************************************************************************)
(* services/geminiService.ts: getClient.                                   *)
(***************************************************************************)
\* A variant that does not trim the key it is given
EffectiveKey_Untrimmed(customKey) == IF customKey # <<>> THEN customKey ELSE envKey

\* customKey?.trim() || process.env.API_KEY
EffectiveKey(customKey) == IF Trim(customKey) # <<>> THEN Trim(customKey) ELSE envKey

\* A variant of getClient that never throws
ClientAvailable_Always(customKey) == TRUE

\* getClient throws when no key resolves
ClientAvailable(customKey) == EffectiveKey(customKey) # <<>>

(***************************************************************************)
(* JSON texts: tokens are punctuation (p), string literals (s), words (w). *)
(***************************************************************************)
JP(v) == [k |-> "p", v |-> v]
JS(v) == [k |-> "s", v |-> v]
JW(v) == [k |-> "w", v |-> v]

\* The JavaScript string a string literal denotes ("" is the empty string)
StrValue(tok) == IF tok.v = "" THEN <<>> ELSE <<JW(tok.v)>>

IsScalar(tok) == tok.k = "s" \/ (tok.k = "w" /\ tok.v \in {"null", "true", "42"})

\* The value of a scalar token as a property value: a string, or a falsy null
ScalarValue(tok) == IF tok.k = "s" THEN StrValue(tok) ELSE <<>>

JSyntaxError == [ok |-> FALSE, kind |-> "error", members |-> <<>>]
JValue(kind, members) == [ok |-> TRUE, kind |-> kind, members |-> members]

\* members of an object, from position i on: "key" : scalar ( , | } )
RECURSIVE ParseMembers(_, _, _)
ParseMembers(t, i, acc) ==
    IF i + 3 > Len(t) THEN JSyntaxError
    ELSE IF t[i].k # "s" \/ t[i + 1] # JP(":") \/ ~IsScalar(t[i + 2]) THEN JSyntaxError
    ELSE LET acc2 == Append(acc, <<t[i].v, ScalarValue(t[i + 2])>>) IN
         IF t[i + 3] = JP("}")
         THEN IF i + 3 = Len(t) THEN JValue("object", acc2) ELSE JSyntaxError
         ELSE IF t[i + 3] = JP(",") THEN ParseMembers(t, i + 4, acc2)
         ELSE JSyntaxError

\* JSON.parse
JSONParse(t) ==
    IF t = <<>> THEN JSyntaxError
    ELSE IF t[1] = JP("{")
    THEN IF Len(t) >= 2 /\ t[2] = JP("}")
         THEN IF Len(t) = 2 THEN JValue("object", <<>>) ELSE JSyntaxError
         ELSE ParseMembers(t, 2, <<>>)
    ELSE IF Len(t) = 1 /\ IsScalar(t[1])
    THEN JValue(IF t[1].k = "s" THEN "string"
                ELSE IF t[1].v = "null" THEN "null" ELSE "primitive", <<>>)
    ELSE JSyntaxError

\* json[key]: the last member of that name, undefined (falsy, <<>>) otherwise
RECURSIVE Member(_, _)
Member(members, key) ==
    IF members = <<>> THEN <<>>
    ELSE IF members[Len(members)][1] = key THEN members[Len(members)][2]
    ELSE Member(SubSeq(members, 1, Len(members) - 1), key)

\* Fixed texts of analyzeFrame
NoChineseDescription == <<JW("cannot-generate-chinese-description")>>
NoEnglishPrompt      == <<JW("Could not generate prompt")>>
ParseFailedText      == <<JW("parse-response-failed")>>

\* A variant without the inner try/catch: a parse error fails the call
analyzeFrame_NoInnerCatch(text) ==
    LET json == JSONParse(text) IN
    IF text = <<>> \/ ~json.ok \/ json.kind = "null"
    THEN [ok |-> FALSE, err |-> ErrNoText, chineseDescription |-> <<>>, englishPrompt |-> <<>>]
    ELSE LET cn == Member(json.members, "chineseDescription")
             en == Member(json.members, "englishPrompt") IN
         [ok |-> TRUE, err |-> NoErr,
          chineseDescription |-> IF cn # <<>> THEN cn ELSE NoChineseDescription,
          englishPrompt |-> IF en # <<>> THEN en ELSE NoEnglishPrompt]

\* analyzeFrame, from the response text on (lines 57-72): the value returned,
\* or the error thrown
analyzeFrame(text) ==
    IF text = <<>>
    THEN [ok |-> FALSE, err |-> ErrNoText, chineseDescription |-> <<>>, englishPrompt |-> <<>>]
    ELSE LET json == JSONParse(text) IN
         IF ~json.ok \/ json.kind = "null"
         THEN \* SyntaxError of JSON.parse, or TypeError reading a property of null
              [ok |-> TRUE, err |-> NoErr,
               chineseDescription |-> ParseFailedText, englishPrompt |-> text]
         ELSE LET cn == Member(json.members, "chineseDescription")
                  en == Member(json.members, "englishPrompt") IN
              [ok |-> TRUE, err |-> NoErr,
               chineseDescription |-> IF cn # <<>> THEN cn ELSE NoChineseDescription,
               englishPrompt |-> IF en # <<>> THEN en ELSE NoEnglishPrompt]

\* Response texts of the Analyze request
BodyFull      == <<JP("{"), JS("chineseDescription"), JP(":"), JS("cn"), JP(","),
                   JS("englishPrompt"), JP(":"), JS("en"), JP("}")>>
BodyNoChinese == <<JP("{"), JS("englishPrompt"), JP(":"), JS("en"), JP("}")>>
BodyEmptyObj  == <<JP("{"), JP("}")>>
BodyNull      == <<JW("null")>>
BodyProse     == <<JW("Sorry,"), JW("I"), JW("cannot")>>
BodyTruncated == <<JP("{"), JS("chineseDescription"), JP(":"), JS("cn"), JP(",")>>
BodyEmptyText == <<>>

AnalyzeBodies ==
    { BodyFull, BodyNoChinese, BodyEmptyObj, BodyNull, BodyProse, BodyTruncated, BodyEmptyText }

(***************************************************************************)
(* Service calls.  A job is one call of analyzeFrame,                      *)
(* generateImageFromPrompt or generateVideoFromImage: the key it was       *)
(* given, where it stands, and what it has done so far.  live says whether *)
(* the view instance that started it is still mounted (a state setter of   *)
(* an unmounted component does nothing).                                   *)
(***************************************************************************)
NewJob(kind, key) ==
    [kind     |-> kind,
     live     |-> TRUE,
     key      |-> key,
     frame    |-> NoFrame,         \* Analyze in flight: the frame whose image was sent
     effectiveKey |-> EffectiveKey(key),   \* the key getClient resolves
     downloadKey  |-> <<>>,                \* VideoGenerate: the key appended to the download URL
     status   |-> "Running",       \* Running, Succeeded, Failed
     pc       |-> "await",         \* await, submit, wait, poll, download, end
     subs     |-> <<>>,            \* ImageGenerate: pending / ok / fail per request
     requests |-> 0,               \* remote requests issued
     polls    |-> 0,               \* VideoGenerate: status polls issued
     waits    |-> 0,               \* VideoGenerate: timers that have fired
     timer    |-> 0,               \* VideoGenerate: seconds left of the running timer
     waited   |-> 0,               \* VideoGenerate: seconds spent in timers
     notDone  |-> 0,               \* VideoGenerate: handles seen with done = false
     pollReports |-> <<>>,         \* VideoGenerate: the done flags the polls returned
     stage    |-> "none",          \* VideoGenerate: where the call ended
     raised   |-> [status |-> -1, code |-> -1, message |-> <<>>],  \* what its catch caught
     aspect   |-> "none",          \* VideoGenerate: config.aspectRatio
     endImage |-> FALSE,           \* VideoGenerate: config.lastFrame present
     response |-> [t |-> "none", text |-> <<>>, err |-> NoErr],   \* Analyze: what came back
     analysis |-> [chineseDescription |-> <<>>, englishPrompt |-> <<>>],
     error    |-> NoErr]

NoJob == [NewJob("none", <<>>) EXCEPT !.status = "Idle", !.pc = "end"]

InFlight(j) == j \in 1..Len(jobs)

\* A variant in which the call that ended issues its request once more
RemoveAt_Retry(js, j) == [js EXCEPT ![j].requests = @ + 1]

\* The call at position j has ended and leaves the calls in flight
RemoveAt(js, j) == SubSeq(js, 1, j - 1) \o SubSeq(js, j + 1, Len(js))

\* The ids the gallery and the studio hold now
HeldIds ==
    {frames[i].id : i \in 1..Len(frames)}
    \cup {generatedImages[i].id : i \in 1..Len(generatedImages)}

\* A variant in which the calls of an unmounted view still reach the view
\* shown in its place
Detach_StillLive(js, kinds) == js

\* The jobs of a view stop reaching its state when the view unmounts
Detach(js, kinds) ==
    [j \in 1..Len(js) |-> IF js[j].kind \in kinds THEN [js[j] EXCEPT !.live = FALSE] ELSE js[j]]

CreativeKinds == {"Analyze", "ImageGenerate"}
VeoKinds      == {"VideoGenerate"}

(***************************************************************************)
(* App.tsx: gallery, selection, navigation.                                *)
(***************************************************************************)
\* useState initial values of CreativeStudio
CreativeInitial ==
    /\ englishPrompt' = <<>>
    /\ chineseDesc' = <<>>
    /\ csAppState' = "IDLE"
    /\ csError' = <<>>
    /\ generatedImages' = <<>>
    /\ imageCount' = 1

\* useState initial values of VeoStudio; mounted, its effects put the
\* selected frame (if any) into the start slot
VeoInitial(mounted) ==
    /\ veoAppState' = "IDLE"
    /\ veoError' = <<>>
    /\ generatedVideo' = FALSE
    /\ veoAspect' = "16:9"
    /\ startFrame' = IF mounted THEN selectedFrame ELSE NoFrame
    /\ endFrame' = NoFrame
    /\ activeSlot' = "start"

\* CreativeStudio, effect on [selectedFrame]
CreativeSelectionEffect(frame) ==
    IF frame # NoFrame
    THEN /\ englishPrompt' = <<>>
         /\ chineseDesc' = <<>>
         /\ generatedImages' = <<>>
         /\ csError' = <<>>
         /\ csAppState' = "IDLE"
         /\ UNCHANGED imageCount
    ELSE UNCHANGED csVars

\* VeoStudio, effect on [selectedFrame, activeSlot]
VeoSlotEffect(frame, slot) ==
    IF frame # NoFrame
    THEN IF slot = "start"
         THEN startFrame' = frame /\ UNCHANGED endFrame
         ELSE endFrame' = frame /\ UNCHANGED startFrame
    ELSE UNCHANGED <<startFrame, endFrame>>

\* A variant that selects every captured frame
handleCapture_AlwaysSelect(frame) ==
    /\ frames' = Append(frames, frame)
    /\ selectedFrame' = frame

handleCapture(frame) ==
    /\ frames' = Append(frames, frame)
    /\ selectedFrame' = IF selectedFrame = NoFrame THEN frame ELSE selectedFrame

\* VideoPlayer.captureFrame, the readback succeeding
captureFrame(rnd) ==
    /\ currentStep = "CAPTURE"
    /\ videoSrc # "none"
    /\ Len(frames) < MaxFrames
    /\ LET newFrame == [id |-> generateId("frame", rnd), isGenerated |-> FALSE] IN
         handleCapture(newFrame)
    /\ UNCHANGED <<currentStep, keyVars, envVars, csVars, veoVars, jobVars>>

\* A variant in which the frame is added although the readback threw
captureFrameThrows_AddsFrame ==
    /\ currentStep = "CAPTURE"
    /\ videoSrc = "url"
    /\ alerts < MaxAlerts
    /\ Len(frames) < MaxFrames
    /\ alerts' = alerts + 1
    /\ handleCapture([id |-> generateId("frame", "a"), isGenerated |-> FALSE])
    /\ UNCHANGED <<currentStep, keyVars, now, videoSrc, csVars, veoVars, jobVars>>

\* VideoPlayer.captureFrame, drawImage or toDataURL throwing (the canvas is
\* tainted by a video of another origin): the catch block shows the alert
captureFrameThrows ==
    /\ currentStep = "CAPTURE"
    /\ videoSrc = "url"
    /\ alerts < MaxAlerts
    /\ alerts' = alerts + 1
    /\ UNCHANGED <<appVars, keyVars, now, videoSrc, csVars, veoVars, jobVars>>

\* Two frames of the gallery can be equal in every field and still be two
\* objects; other says that the clicked one is not the object selected now.
\* changed: the selectedFrame reference changes, so the effects on it run.
handleSelectFrame(i, other) ==
    /\ i \in 1..Len(frames)
    /\ LET frame == frames[i]
           changed == frame # selectedFrame \/ other
       IN
         /\ other => /\ frame = selectedFrame
                     /\ Cardinality({k \in 1..Len(frames) : frames[k] = frame}) > 1
         /\ selectedFrame' = frame
         /\ IF currentStep = "CREATIVE" /\ changed
            THEN CreativeSelectionEffect(frame)
            ELSE UNCHANGED csVars
         /\ IF currentStep = "VEO" /\ changed
            THEN VeoSlotEffect(frame, activeSlot)
            ELSE UNCHANGED <<startFrame, endFrame>>
    /\ UNCHANGED <<frames, currentStep, keyVars, envVars, jobVars,
                   veoAppState, veoError, generatedVideo, veoAspect, activeSlot>>

\* A variant that forgets to clear the selection
handleDeleteFrame_KeepSelection(id) ==
    /\ frames' = FilterOutId(frames, id)
    /\ UNCHANGED selectedFrame

\* A variant that moves the selection to the first frame left
handleDeleteFrame_SelectNeighbour(id) ==
    /\ frames' = FilterOutId(frames, id)
    /\ selectedFrame' = IF selectedFrame # NoFrame /\ selectedFrame.id = id
                        THEN IF FilterOutId(frames, id) = <<>> THEN NoFrame
                             ELSE FilterOutId(frames, id)[1]
                        ELSE selectedFrame

\* A variant that puts the frames left in the opposite order
handleDeleteFrame_Reorder(id) ==
    /\ LET left == FilterOutId(frames, id) IN
         frames' = [i \in 1..Len(left) |-> left[Len(left) + 1 - i]]
    /\ selectedFrame' = IF selectedFrame # NoFrame /\ selectedFrame.id = id
                        THEN NoFrame ELSE selectedFrame

handleDeleteFrame(id) ==
    /\ frames' = FilterOutId(frames, id)
    /\ selectedFrame' = IF selectedFrame # NoFrame /\ selectedFrame.id = id
                        THEN NoFrame ELSE selectedFrame

\* The delete buttons of ScreenshotGallery and FrameInfoSidebar (CAPTURE step)
DeleteFrame(i) ==
    /\ currentStep = "CAPTURE"
    /\ i \in 1..Len(frames)
    /\ handleDeleteFrame(frames[i].id)
    /\ UNCHANGED <<currentStep, keyVars, envVars, csVars, veoVars, jobVars>>

\* A variant that appends the imported frame as handleCapture does
handleImageSaved_Append(img) ==
    LET newFrame == [id |-> img.id, isGenerated |-> TRUE] IN
    frames' = Append(frames, newFrame)

handleImageSaved(img) ==
    LET newFrame == [id |-> img.id, isGenerated |-> TRUE] IN
    frames' = <<newFrame>> \o frames

\* The onImageSaved prop of CreativeStudio called with an image, whatever
\* the selection is
onImageSaved(img) ==
    /\ currentStep = "CREATIVE"
    /\ Len(frames) < MaxFrames
    /\ handleImageSaved(img)
    /\ UNCHANGED <<selectedFrame, currentStep, keyVars, envVars, csVars, veoVars, jobVars>>

\* Step navigation: the view of the step left is unmounted, the one entered mounted
SetStep(step) ==
    /\ step # currentStep
    /\ currentStep' = step
    /\ videoSrc' = IF currentStep = "CAPTURE" THEN "none" ELSE videoSrc
    /\ IF currentStep = "CREATIVE" THEN CreativeInitial ELSE UNCHANGED csVars
    /\ IF step = "VEO" \/ currentStep = "VEO"
       THEN VeoInitial(step = "VEO")
       ELSE UNCHANGED veoVars
    /\ jobs' = IF currentStep = "CREATIVE" THEN Detach(jobs, CreativeKinds)
               ELSE IF currentStep = "VEO" THEN Detach(jobs, VeoKinds)
               ELSE jobs
    /\ UNCHANGED <<frames, selectedFrame, keyVars, now, alerts, settled>>

\* VideoPlayer: a local file or a URL is loaded, or the video is cleared
SetVideoSrc(src) ==
    /\ currentStep = "CAPTURE"
    /\ src # videoSrc
    /\ videoSrc' = src
    /\ UNCHANGED <<appVars, keyVars, now, alerts, csVars, veoVars, jobVars>>

\* Date.now() advances
Tick ==
    /\ now < MaxClock
    /\ now' = now + 1
    /\ UNCHANGED <<appVars, keyVars, videoSrc, alerts, csVars, veoVars, jobVars>>

(***************************************************************************)
(* CreativeStudio (components/CreativeStudio.tsx).                         *)
(***************************************************************************)
AnalyzeFailedMsg  == <<"analyze-failed-check-network-or-key">>
GenerateFailedMsg == <<"generate-failed-model-busy-retry">>

\* What the user may type into the English prompt box
PromptInputs == { <<>>, <<JW("typed"), JW("prompt")>> }

CreativeShown == currentStep = "CREATIVE" /\ selectedFrame # NoFrame

CreativeBusy == csAppState \in {"ANALYZING", "GENERATING"}

\* onChange of the English prompt textarea
TypePrompt(v) ==
    /\ CreativeShown
    /\ csAppState # "ANALYZING"
    /\ v # englishPrompt
    /\ englishPrompt' = v
    /\ UNCHANGED <<appVars, keyVars, envVars, veoVars, jobVars,
                   chineseDesc, csAppState, csError, generatedImages, imageCount>>

SetImageCount(n) ==
    /\ CreativeShown
    /\ n # imageCount
    /\ imageCount' = n
    /\ UNCHANGED <<appVars, keyVars, envVars, veoVars, jobVars,
                   englishPrompt, chineseDesc, csAppState, csError, generatedImages>>

\* handleAnalyze up to its await; getClient throwing ends the call at once
handleAnalyze ==
    /\ CreativeShown
    /\ ~CreativeBusy
    /\ Len(jobs) < MaxJobs
    /\ LET job == NewJob("Analyze", apiKey) IN
         IF ClientAvailable(apiKey)
         THEN /\ jobs' = Append(jobs, [job EXCEPT !.requests = 1, !.frame = selectedFrame])
              /\ csAppState' = "ANALYZING"
              /\ csError' = <<>>
              /\ UNCHANGED settled
         ELSE /\ settled' = [job EXCEPT !.status = "Failed", !.pc = "end",
                                        !.error = ErrMissingKey]
              /\ csAppState' = "ERROR"
              /\ csError' = AnalyzeFailedMsg
              /\ UNCHANGED jobs
    /\ UNCHANGED <<appVars, keyVars, envVars, veoVars,
                   englishPrompt, chineseDesc, generatedImages, imageCount>>

\* What the Analyze request comes back with: a response text, or an error
TextResponse(b) == [t |-> "text", text |-> b, err |-> NoErr]
Throw(e)        == [t |-> "throw", text |-> <<>>, err |-> e]

AnalyzeResponses ==
    { TextResponse(b) : b \in AnalyzeBodies } \cup { Throw(e) : e \in RemoteErrors }

\* The Analyze request returns: the rest of analyzeFrame and of handleAnalyze
AnalyzeSettle(j, resp) ==
    /\ InFlight(j)
    /\ jobs[j].kind = "Analyze"
    /\ LET r    == IF resp.t = "text" THEN analyzeFrame(resp.text)
                   ELSE [ok |-> FALSE, err |-> resp.err,
                         chineseDescription |-> <<>>, englishPrompt |-> <<>>]
           done == [jobs[j] EXCEPT !.pc = "end", !.frame = NoFrame,
                                   !.status = IF r.ok THEN "Succeeded" ELSE "Failed",
                                   !.error = r.err,
                                   !.response = resp,
                                   !.analysis = [chineseDescription |-> r.chineseDescription,
                                                 englishPrompt |-> r.englishPrompt]]
       IN
         /\ jobs' = RemoveAt(jobs, j)
         /\ settled' = done
         /\ IF ~jobs[j].live THEN UNCHANGED csVars
            ELSE IF r.ok
            THEN /\ englishPrompt' = r.englishPrompt
                 /\ chineseDesc' = r.chineseDescription
                 /\ csAppState' = "IDLE"
                 /\ UNCHANGED <<csError, generatedImages, imageCount>>
            ELSE /\ csError' = AnalyzeFailedMsg
                 /\ csAppState' = "ERROR"
                 /\ UNCHANGED <<englishPrompt, chineseDesc, generatedImages, imageCount>>
    /\ UNCHANGED <<appVars, keyVars, envVars, veoVars>>

\* A variant that waits for every request and keeps what succeeded
PromiseAll_Settled(subs) ==
    IF \E i \in 1..Len(subs) : subs[i] = "pending" THEN "pending"
    ELSE IF \E i \in 1..Len(subs) : subs[i] = "ok" THEN "fulfilled"
    ELSE "rejected"

\* Promise.all over the sub-requests: rejected by the first rejection,
\* fulfilled when every one is fulfilled
PromiseAll(subs) ==
    IF \E i \in 1..Len(subs) : subs[i] = "fail" THEN "rejected"
    ELSE IF \A i \in 1..Len(subs) : subs[i] = "ok" THEN "fulfilled"
    ELSE "pending"

\* handleGenerate up to its await: count parallel requests are issued
handleGenerate ==
    /\ CreativeShown
    /\ englishPrompt # <<>>
    /\ ~CreativeBusy
    /\ Len(jobs) < MaxJobs
    /\ LET job == NewJob("ImageGenerate", apiKey) IN
         IF ClientAvailable(apiKey)
         THEN /\ jobs' = Append(jobs, [job EXCEPT !.requests = imageCount,
                                                  !.subs = [i \in 1..imageCount |-> "pending"]])
              /\ csAppState' = "GENERATING"
              /\ csError' = <<>>
              /\ UNCHANGED settled
         ELSE /\ settled' = [job EXCEPT !.status = "Failed", !.pc = "end",
                                        !.error = ErrMissingKey]
              /\ csAppState' = "ERROR"
              /\ csError' = GenerateFailedMsg
              /\ UNCHANGED jobs
    /\ generatedImages' = <<>>
    /\ UNCHANGED <<appVars, keyVars, envVars, veoVars, englishPrompt, chineseDesc, imageCount>>

\* What one image request comes back with
ImageOk == [t |-> "image", text |-> <<>>, err |-> NoErr]

ImageNoParts == [t |-> "noParts", text |-> <<>>, err |-> ErrNoContent]
ImageNoData  == [t |-> "noImage", text |-> <<>>, err |-> ErrNoImage]

\* generateId is taken to return ids that differ from each other and from
\* every id held
FreshIds(ids, n) == Cardinality(ids) = n /\ ids \cap HeldIds = {}

\* One image request of job j returns; when that settles Promise.all, the
\* rest of generateImageFromPrompt and of handleGenerate runs.  rnds are the
\* random suffixes of the ids of the new images.
ImageSubResponse(j, i, resp, rnds, fresh) ==
    /\ InFlight(j)
    /\ jobs[j].kind = "ImageGenerate"
    /\ i \in 1..Len(jobs[j].subs)
    /\ jobs[j].subs[i] = "pending"
    /\ LET subs    == [jobs[j].subs EXCEPT ![i] = IF resp.t = "image" THEN "ok" ELSE "fail"]
           outcome == PromiseAll(subs)
           newImages == [k \in 1..Len(subs) |-> [id |-> generateId("img", rnds[k])]]
           newIds  == {newImages[k].id : k \in 1..Len(subs)}
       IN
         CASE outcome = "pending" ->
                /\ rnds = <<>>
                /\ jobs' = [jobs EXCEPT ![j].subs = subs]
                /\ UNCHANGED <<csVars, settled>>
           [] outcome = "rejected" ->
                /\ rnds = <<>>
                /\ jobs' = RemoveAt(jobs, j)
                /\ settled' = [jobs[j] EXCEPT !.subs = subs, !.status = "Failed",
                                              !.pc = "end", !.error = resp.err]
                /\ IF jobs[j].live
                   THEN /\ csError' = GenerateFailedMsg
                        /\ csAppState' = "ERROR"
                        /\ UNCHANGED <<englishPrompt, chineseDesc, generatedImages, imageCount>>
                   ELSE UNCHANGED csVars
           [] outcome = "fulfilled" ->
                /\ Len(rnds) = Len(subs)
                /\ fresh => FreshIds(newIds, Len(subs))
                /\ jobs' = RemoveAt(jobs, j)
                /\ settled' = [jobs[j] EXCEPT !.subs = subs, !.status = "Succeeded",
                                              !.pc = "end"]
                /\ IF jobs[j].live
                   THEN /\ generatedImages' = newImages
                        /\ csAppState' = "IDLE"
                        /\ UNCHANGED <<englishPrompt, chineseDesc, csError, imageCount>>
                   ELSE UNCHANGED csVars
    /\ UNCHANGED <<appVars, keyVars, envVars, veoVars>>

\* A variant in which the promise takes the outcome it is given last
PromiseSettle_LastWins(status, outcome) == outcome

\* A promise is settled once: a later rejection or fulfilment is ignored
PromiseSettle(status, outcome) == IF status = "Running" THEN outcome ELSE status

\* A request of the batch that ended last returns after Promise.all rejected:
\* its async arrow function returns or throws, nothing awaits it any more
ImageLateResponse(i, resp) ==
    /\ settled.kind = "ImageGenerate"
    /\ i \in 1..Len(settled.subs)
    /\ settled.subs[i] = "pending"
    /\ LET subs == [settled.subs EXCEPT ![i] = IF resp.t = "image" THEN "ok" ELSE "fail"] IN
         settled' = [settled EXCEPT
                        !.subs = subs,
                        !.status = PromiseSettle(settled.status,
                                                 IF resp.t = "image" THEN "Succeeded" ELSE "Failed"),
                        !.error = IF PromiseSettle(settled.status, "late") = "late"
                                  THEN resp.err ELSE settled.error]
    /\ UNCHANGED <<appVars, keyVars, envVars, csVars, veoVars, jobs>>

\* CreativeStudio.handleSaveToGallery -> App.handleImageSaved
handleSaveToGallery(k) ==
    /\ CreativeShown
    /\ k \in 1..Len(generatedImages)
    /\ Len(frames) < MaxFrames
    /\ handleImageSaved(generatedImages[k])
    /\ UNCHANGED <<selectedFrame, currentStep, keyVars, envVars, csVars,
                   veoVars, jobVars>>

(***************************************************************************)
(* services/geminiService.ts: generateVideoFromImage.                      *)
(***************************************************************************)
\* setTimeout(resolve, 5000), in seconds
PollIntervalSec == 5

ErrNoUri == [status |-> 0, code |-> 0,
             message |-> <<"Video", "generation", "failed:", "No", "URI", "returned.">>]

\* TypeError of a fetch that cannot reach the server
ErrFetch == [status |-> 0, code |-> 0, message |-> <<"Failed", "to", "fetch">>]

\* new Error(`Failed to download video: ${statusText} (${status})`)
DownloadError(statusText, status) ==
    [status |-> 0, code |-> 0,
     message |-> <<"Failed", "to", "download", "video:", statusText, "(", status, ")">>]

ErrPermissionDenied ==
    [status |-> 0, code |-> 0,
     message |-> <<"Permission", "Denied", "(", "403", ")", ":", "Veo", "requires",
                   "a", "PAID", "key">>]

\* A variant that looks at the status field only
IsPermissionDenied_StatusOnly(error) == error.status = 403

\* The test of the catch block (line 201)
IsPermissionDenied(error) ==
    \/ error.status = 403
    \/ error.code = 403
    \/ (error.message # <<>> /\ Includes(error.message, "403"))

\* The catch block: what generateVideoFromImage rejects with
VideoCatch(error) == IF IsPermissionDenied(error) THEN ErrPermissionDenied ELSE error

\* keyToUse (line 183)
KeyToUse(apiKeyGiven) == IF Trim(apiKeyGiven) # <<>> THEN Trim(apiKeyGiven) ELSE envKey

\* A variant that passes the ratio on when it is one the model accepts
TargetAspectRatio_PassThrough(aspectRatio) ==
    IF aspectRatio \in {"9:16", "3:4"} THEN aspectRatio ELSE "16:9"

\* lines 143-146
TargetAspectRatio(aspectRatio) == IF aspectRatio \in {"9:16", "3:4"} THEN "9:16" ELSE "16:9"

\* An operation handle as generateVideos / getVideosOperation return it
Handle(done, uri) == [t |-> "handle", done |-> done, uri |-> uri, err |-> NoErr]

Handles == { Handle(FALSE, FALSE), Handle(TRUE, TRUE), Handle(TRUE, FALSE) }

\* The response of the download: ok, or a status outside 200..299
Fetched(ok, statusText, status) ==
    [t |-> "fetched", ok |-> ok, statusText |-> statusText, status |-> status, err |-> NoErr]

\* A variant of the loop that never looks at the done flag
LoopContinues_IgnoreDone(operation) == TRUE

\* while (!operation.done)
LoopContinues(operation) == ~operation.done

(***************************************************************************)
(* VeoStudio.                                                              *)
(***************************************************************************)
VideoFailedMsg == <<"generate-video-failed">>
BillingMsg     == <<"permission-denied", "(", "403", ")", "veo-needs-billing-key">>

\* A variant that shows the message of the error as it is
VeoErrorMessage_PassThrough(err) ==
    IF err.message # <<>> THEN err.message ELSE VideoFailedMsg

\* A variant without the fallback text for an error that has no message
VeoErrorMessage_NoFallback(err) ==
    IF Includes(err.message, "403") \/ IncludesSeq(err.message, <<"Permission", "Denied">>)
    THEN BillingMsg ELSE err.message

\* A variant that shows one fixed text for every failure
VeoErrorMessage_Fixed(err) == VideoFailedMsg

\* The catch block of handleGenerateVideo: the message shown
VeoErrorMessage(err) ==
    LET errMsg == IF err.message # <<>> THEN err.message ELSE VideoFailedMsg IN
    IF Includes(errMsg, "403") \/ IncludesSeq(errMsg, <<"Permission", "Denied">>)
    THEN BillingMsg ELSE errMsg

\* onClick of the start / end slot; the effect on [selectedFrame, activeSlot]
\* runs when the slot changes
SetActiveSlot(slot) ==
    /\ currentStep = "VEO"
    /\ slot # activeSlot
    /\ activeSlot' = slot
    /\ VeoSlotEffect(selectedFrame, slot)
    /\ UNCHANGED <<appVars, keyVars, envVars, csVars, jobVars,
                   veoAppState, veoError, generatedVideo, veoAspect>>

\* The X of the end slot
clearEndFrame ==
    /\ currentStep = "VEO"
    /\ endFrame # NoFrame
    /\ activeSlot' = "end"
    /\ IF activeSlot # "end" /\ selectedFrame # NoFrame
       THEN endFrame' = selectedFrame
       ELSE endFrame' = NoFrame
    /\ UNCHANGED <<appVars, keyVars, envVars, csVars, jobVars, startFrame,
                   veoAppState, veoError, generatedVideo, veoAspect>>

\* The ratio buttons of VeoStudio
VEO_RATIOS == {"16:9", "9:16"}

SetAspectRatio(r) ==
    /\ currentStep = "VEO"
    /\ r \in VEO_RATIOS
    /\ r # veoAspect
    /\ veoAspect' = r
    /\ UNCHANGED <<appVars, keyVars, envVars, csVars, jobVars, veoAppState, veoError,
                   generatedVideo, startFrame, endFrame, activeSlot>>

\* The call of job j ends with error raised at its present stage: the catch
\* block of the service, then the one of handleGenerateVideo
VeoFail(job, j, raised) ==
    LET error == VideoCatch(raised) IN
    /\ jobs' = RemoveAt(jobs, j)
    /\ settled' = [job EXCEPT !.status = "Failed", !.stage = job.pc, !.pc = "end",
                              !.raised = raised, !.error = error]
    /\ IF job.live
       THEN /\ veoError' = VeoErrorMessage(error)
            /\ veoAppState' = "ERROR"
            /\ UNCHANGED <<generatedVideo, veoAspect, startFrame, endFrame, activeSlot>>
       ELSE UNCHANGED veoVars

\* handleGenerateVideo up to the first await of the service (window.aistudio
\* absent); getClient throwing ends the call at once.  The button is disabled
\* without a start frame.
handleGenerateVideo ==
    /\ currentStep = "VEO"
    /\ veoAppState # "GENERATING"
    /\ startFrame # NoFrame
    /\ Len(jobs) < MaxJobs
    /\ LET job == [NewJob("VideoGenerate", apiKey) EXCEPT
                      !.pc = "submit",
                      !.aspect = TargetAspectRatio(veoAspect),
                      !.endImage = (endFrame # NoFrame)]
       IN
         IF ClientAvailable(apiKey)
         THEN /\ jobs' = Append(jobs, [job EXCEPT !.requests = 1])
              /\ veoAppState' = "GENERATING"
              /\ veoError' = <<>>
              /\ UNCHANGED settled
         ELSE /\ settled' = [job EXCEPT !.status = "Failed", !.stage = "client", !.pc = "end",
                                        !.raised = ErrMissingKey,
                                        !.error = VideoCatch(ErrMissingKey)]
              /\ veoAppState' = "ERROR"
              /\ veoError' = VeoErrorMessage(VideoCatch(ErrMissingKey))
              /\ UNCHANGED jobs
    /\ generatedVideo' = FALSE
    /\ UNCHANGED <<appVars, keyVars, envVars, csVars, veoAspect, startFrame, endFrame, activeSlot>>

\* A variant that gives up when a poll is answered not done
VeoHandle_GiveUp(job, j, operation) ==
    IF LoopContinues(operation) /\ job.polls >= 1
    THEN VeoFail(job, j, [status |-> 0, code |-> 0, message |-> <<"timed", "out">>])
    ELSE IF LoopContinues(operation)
    THEN /\ jobs' = [jobs EXCEPT ![j] = [job EXCEPT !.pc = "wait", !.timer = PollIntervalSec]]
         /\ UNCHANGED <<settled, veoVars>>
    ELSE IF ~operation.uri
    THEN VeoFail([job EXCEPT !.pc = "result"], j, ErrNoUri)
    ELSE /\ jobs' = [jobs EXCEPT ![j] = [job EXCEPT !.pc = "download",
                                                    !.downloadKey = KeyToUse(job.key),
                                                    !.requests = job.requests + 1]]
         /\ UNCHANGED <<settled, veoVars>>

\* Job j has a handle in hand: the loop test, then the timer or the download
VeoHandle(job, j, operation) ==
    IF LoopContinues(operation)
    THEN /\ job.polls < MaxPolls
         /\ jobs' = [jobs EXCEPT ![j] = [job EXCEPT !.pc = "wait", !.timer = PollIntervalSec]]
         /\ UNCHANGED <<settled, veoVars>>
    ELSE IF ~operation.uri
    THEN VeoFail([job EXCEPT !.pc = "result"], j, ErrNoUri)
    ELSE /\ jobs' = [jobs EXCEPT ![j] = [job EXCEPT !.pc = "download",
                                                    !.downloadKey = KeyToUse(job.key),
                                                    !.requests = job.requests + 1]]
         /\ UNCHANGED <<settled, veoVars>>

\* generateVideos returns or throws
VeoSubmitResponse(j, resp) ==
    /\ InFlight(j)
    /\ jobs[j].kind = "VideoGenerate"
    /\ jobs[j].pc = "submit"
    /\ IF resp.t = "throw" THEN VeoFail(jobs[j], j, resp.err)
       ELSE VeoHandle([jobs[j] EXCEPT !.notDone = IF resp.done THEN 0 ELSE 1], j, resp)
    /\ UNCHANGED <<appVars, keyVars, envVars, csVars>>

\* A variant that polls on every tick, whether or not the last poll is back
TimerTick_Overlap(j) ==
    /\ InFlight(j)
    /\ jobs[j].kind = "VideoGenerate"
    /\ jobs[j].pc \in {"wait", "poll"}
    /\ jobs' = [jobs EXCEPT ![j] = [jobs[j] EXCEPT !.pc = "poll",
                                                   !.polls = jobs[j].polls + 1,
                                                   !.requests = jobs[j].requests + 1]]
    /\ UNCHANGED <<appVars, keyVars, envVars, csVars, veoVars, settled>>

\* A second of the timer passes; when it fires, getVideosOperation is called
TimerTick(j) ==
    /\ InFlight(j)
    /\ jobs[j].kind = "VideoGenerate"
    /\ jobs[j].pc = "wait"
    /\ LET job == [jobs[j] EXCEPT !.timer = jobs[j].timer - 1,
                                  !.waited = jobs[j].waited + 1] IN
         jobs' = [jobs EXCEPT ![j] =
                    IF job.timer > 0 THEN job
                    ELSE [job EXCEPT !.pc = "poll",
                                     !.waits = job.waits + 1,
                                     !.polls = job.polls + 1,
                                     !.requests = job.requests + 1]]
    /\ UNCHANGED <<appVars, keyVars, envVars, csVars, veoVars, settled>>

\* getVideosOperation returns or throws
VeoPollResponse(j, resp) ==
    /\ InFlight(j)
    /\ jobs[j].kind = "VideoGenerate"
    /\ jobs[j].pc = "poll"
    /\ IF resp.t = "throw" THEN VeoFail(jobs[j], j, resp.err)
       ELSE VeoHandle([jobs[j] EXCEPT
                          !.pollReports = Append(jobs[j].pollReports, resp.done),
                          !.notDone = jobs[j].notDone + IF resp.done THEN 0 ELSE 1],
                      j, resp)
    /\ UNCHANGED <<appVars, keyVars, envVars, csVars>>

\* fetch(finalUrl) returns or rejects; then the rest of handleGenerateVideo
VeoDownloadResponse(j, resp) ==
    /\ InFlight(j)
    /\ jobs[j].kind = "VideoGenerate"
    /\ jobs[j].pc = "download"
    /\ IF resp.t = "throw" THEN VeoFail(jobs[j], j, resp.err)
       ELSE IF ~resp.ok THEN VeoFail(jobs[j], j, DownloadError(resp.statusText, resp.status))
       ELSE /\ jobs' = RemoveAt(jobs, j)
            /\ settled' = [jobs[j] EXCEPT !.status = "Succeeded", !.stage = "download",
                                          !.pc = "end"]
            /\ IF jobs[j].live
               THEN /\ generatedVideo' = TRUE
                    /\ veoAppState' = "IDLE"
                    /\ UNCHANGED <<veoError, veoAspect, startFrame, endFrame, activeSlot>>
               ELSE UNCHANGED veoVars
    /\ UNCHANGED <<appVars, keyVars, envVars, csVars>>

(***************************************************************************)
(* The application after its first render and mount effects.               *)
(***************************************************************************)
Steps == {"CAPTURE", "CREATIVE", "VEO"}

\* 1..n -> S for n in 0..3, as sequences
SeqsUpTo3(S) == UNION { [1..n -> S] : n \in 0..3 }

Init ==
    /\ frames = <<>>
    /\ selectedFrame = NoFrame
    /\ currentStep = "CAPTURE"
    /\ storedKey \in StoredAtStart
    /\ apiKey = storedKey
    /\ showKeyInput = FALSE
    /\ keyError = NoKeyError
    /\ envKey \in EnvKeys
    /\ now = 0
    /\ videoSrc = "none"
    /\ alerts = 0
    /\ englishPrompt = <<>>
    /\ chineseDesc = <<>>
    /\ csAppState = "IDLE"
    /\ csError = <<>>
    /\ generatedImages = <<>>
    /\ imageCount = 1
    /\ jobs = <<>>
    /\ settled = NoJob
    /\ veoAppState = "IDLE"
    /\ veoError = <<>>
    /\ generatedVideo = FALSE
    /\ veoAspect = "16:9"
    /\ startFrame = NoFrame
    /\ endFrame = NoFrame
    /\ activeSlot = "start"

(***************************************************************************)
(* Spec: the gallery.  Capture, select, delete, step navigation, and the   *)
(* image generation of Creative Studio as the source of the images that    *)
(* handleImageSaved imports (prompt typed by the user, one or two images   *)
(* per batch, a request answered by an image or by a server error).        *)
(***************************************************************************)
GalleryNext(fresh) ==
    \/ Tick
    \/ \E src \in {"none", "blob"} : SetVideoSrc(src)
    \/ \E rnd \in RandSuffixes :
          /\ fresh => FreshIds({generateId("frame", rnd)}, 1)
          /\ captureFrame(rnd)
    \/ \E i \in 1..MaxFrames, other \in BOOLEAN : handleSelectFrame(i, other)
    \/ \E i \in 1..MaxFrames : DeleteFrame(i)
    \/ \E step \in Steps : SetStep(step)
    \/ \E v \in PromptInputs : TypePrompt(v)
    \/ jobs = <<>> /\ handleGenerate
    \/ \E resp \in {ImageOk, Throw(Err500)}, rnds \in SeqsUpTo3({"a"}) :
          ImageSubResponse(1, 1, resp, rnds, fresh)
    \/ handleSaveToGallery(1)

Next == GalleryNext(FALSE)

GalleryInit == Init /\ storedKey = NoKey /\ envKey # NoKey

Spec == GalleryInit /\ [][Next]_vars

\* The same, with generateId taken to return an id that nothing holds yet
NextFreshIds == GalleryNext(TRUE)

SpecFreshIds == GalleryInit /\ [][NextFreshIds]_vars

(***************************************************************************)
(* Creative Studio with every response of the service.  The user has       *)
(* captured two frames and opened the CREATIVE step.                       *)
(***************************************************************************)
FrameA == [id |-> [p |-> "frame", t |-> 0, r |-> "a"], isGenerated |-> FALSE]
FrameB == [id |-> [p |-> "frame", t |-> 0, r |-> "b"], isGenerated |-> FALSE]

\* The state after two captures and a click on the tab of step
TwoFramesCaptured(step) ==
    /\ frames = <<FrameA, FrameB>>
    /\ selectedFrame = FrameA
    /\ currentStep = step
    /\ storedKey \in StoredAtStart
    /\ apiKey = storedKey
    /\ showKeyInput = FALSE
    /\ keyError = NoKeyError
    /\ envKey \in EnvKeys
    /\ now = 0
    /\ videoSrc = "none"
    /\ alerts = 0
    /\ englishPrompt = <<>>
    /\ chineseDesc = <<>>
    /\ csAppState = "IDLE"
    /\ csError = <<>>
    /\ generatedImages = <<>>
    /\ imageCount = 1
    /\ jobs = <<>>
    /\ settled = NoJob
    /\ veoAppState = "IDLE"
    /\ veoError = <<>>
    /\ generatedVideo = FALSE
    /\ veoAspect = "16:9"
    /\ startFrame = IF step = "VEO" THEN FrameA ELSE NoFrame
    /\ endFrame = NoFrame
    /\ activeSlot = "start"

\* The key, if any, is the stored one
CreativeInit == TwoFramesCaptured("CREATIVE") /\ envKey = NoKey

\* Analysis alone: every response text and every error of the service
AnalyzeNext ==
    \/ \E i \in 1..2 : handleSelectFrame(i, FALSE)
    \/ \E step \in {"CAPTURE", "CREATIVE"} : SetStep(step)
    \/ \E v \in PromptInputs : TypePrompt(v)
    \/ handleAnalyze
    \/ \E j \in 1..MaxJobs, resp \in AnalyzeResponses : AnalyzeSettle(j, resp)

SpecAnalyze == CreativeInit /\ [][AnalyzeNext]_vars

\* Image generation alone: batches of one to three requests, each answered
\* by an image, by a response without one, or by a server error
ImagesNext ==
    \/ \E i \in 1..2 : handleSelectFrame(i, FALSE)
    \/ \E step \in {"CAPTURE", "CREATIVE"} : SetStep(step)
    \/ \E v \in PromptInputs : TypePrompt(v)
    \/ \E n \in 1..3 : SetImageCount(n)
    \/ jobs = <<>> /\ handleGenerate
    \/ \E j \in 1..MaxJobs, i \in 1..3, rnds \in SeqsUpTo3({"a"}),
          resp \in {ImageOk, ImageNoParts, ImageNoData, Throw(Err500)} :
          ImageSubResponse(j, i, resp, rnds, FALSE)
    \/ \E k \in 1..3 : handleSaveToGallery(k)

SpecImages == CreativeInit /\ [][ImagesNext]_vars

(***************************************************************************)
(* Veo Studio.  The user has captured two frames and opened the VEO step.  *)
(***************************************************************************)
VeoInit == TwoFramesCaptured("VEO") /\ envKey = NoKey

\* What the user does in the VEO step, one video job at a time
VeoUser ==
    \/ \E i \in 1..2 : handleSelectFrame(i, FALSE)
    \/ \E slot \in {"start", "end"} : SetActiveSlot(slot)
    \/ clearEndFrame
    \/ \E step \in {"CAPTURE", "VEO"} : SetStep(step)
    \/ jobs = <<>> /\ handleGenerateVideo

\* Polling: every handle the service may return, no request throws
PollingNext ==
    \/ VeoUser
    \/ \E j \in 1..MaxJobs, resp \in Handles : VeoSubmitResponse(j, resp)
    \/ \E j \in 1..MaxJobs : TimerTick(j)
    \/ \E j \in 1..MaxJobs, resp \in Handles : VeoPollResponse(j, resp)
    \/ \E j \in 1..MaxJobs, resp \in {Fetched(TRUE, "OK", "200"),
                                       Fetched(FALSE, "Not Found", "404")} :
          VeoDownloadResponse(j, resp)

SpecPolling == VeoInit /\ [][PollingNext]_vars

\* Errors: each request may throw what the SDK throws, the download may come
\* back with an error status or not at all
VeoErrorsNext ==
    \/ VeoUser
    \/ \E j \in 1..MaxJobs,
          resp \in {Handle(FALSE, FALSE), Handle(TRUE, TRUE)} \cup {Throw(e) : e \in RemoteErrors} :
          VeoSubmitResponse(j, resp)
    \/ \E j \in 1..MaxJobs : TimerTick(j)
    \/ \E j \in 1..MaxJobs,
          resp \in {Handle(FALSE, FALSE), Handle(TRUE, TRUE)} \cup {Throw(e) : e \in RemoteErrors} :
          VeoPollResponse(j, resp)
    \/ \E j \in 1..MaxJobs,
          resp \in {Fetched(TRUE, "OK", "200"), Fetched(FALSE, "Forbidden", "403"),
                    Fetched(FALSE, "Not Found", "404"), Throw(ErrFetch)} :
          VeoDownloadResponse(j, resp)

SpecVeoErrors == VeoInit /\ [][VeoErrorsNext]_vars

(***************************************************************************)
(* The API key form next to Creative Studio: the key is edited, saved or   *)
(* cancelled, and an analysis is started with the key in memory.           *)
(***************************************************************************)
KeyInit == TwoFramesCaptured("CREATIVE")

KeyNext ==
    \/ OpenKeyInput
    \/ \E v \in KeyInputs : TypeKey(v)
    \/ handleSaveApiKey
    \/ handleCancelKeyInput
    \/ jobs = <<>> /\ handleAnalyze
    \/ \E resp \in {TextResponse(BodyFull), Throw(Err403Status)} : AnalyzeSettle(1, resp)

SpecKey == KeyInit /\ [][KeyNext]_vars

(***************************************************************************)
(* Gallery claims.                                                         *)
(***************************************************************************)
InGallery(frame) == \E i \in 1..Len(frames) : frames[i] = frame

\* C1: after any sequence of capture, import, select and delete, the selected
\* frame is null or a frame that is in the gallery.
C1_SelectionInGallery == selectedFrame = NoFrame \/ InGallery(selectedFrame)

\* A generated frame is selected in a gallery of three frames
C1_Witness ==
    /\ selectedFrame # NoFrame
    /\ selectedFrame.isGenerated
    /\ InGallery(selectedFrame)
    /\ Len(frames) >= 3

\* C2: a step that removes the frames with the selected frame's id leaves the
\* selection null.
C2_DeleteSelectedClears ==
    [][(/\ selectedFrame # NoFrame
        /\ HasId(frames, selectedFrame.id)
        /\ ~HasId(frames', selectedFrame.id)) => selectedFrame' = NoFrame]_vars

\* Nothing is selected although frames remain: the selected frame was deleted
C2_Witness == selectedFrame = NoFrame /\ Len(frames) >= 2

\* A step that appends one captured frame to the gallery
IsCaptureStep ==
    /\ Len(frames') = Len(frames) + 1
    /\ SubSeq(frames', 1, Len(frames)) = frames
    /\ ~frames'[Len(frames')].isGenerated

\* C3 as stated: a capture into an empty gallery selects the new frame, a
\* capture into a non-empty gallery leaves the selection as it was.
C3_AsStated ==
    [][IsCaptureStep =>
         /\ frames = <<>> => selectedFrame' = frames'[Len(frames')]
         /\ frames # <<>> => selectedFrame' = selectedFrame]_vars

\* C3 amended: a capture while nothing is selected (so also into an empty
\* gallery) selects the new frame; a capture while a frame is selected leaves
\* the selection as it was.
C3_CaptureSelectsWhenNoneSelected ==
    [][IsCaptureStep =>
         /\ frames = <<>> => selectedFrame' = frames'[Len(frames')]
         /\ selectedFrame = NoFrame => selectedFrame' = frames'[Len(frames')]
         /\ selectedFrame # NoFrame => selectedFrame' = selectedFrame]_vars

\* The last captured frame of a gallery of several frames is the selected one
C3_Witness ==
    /\ currentStep = "CAPTURE"
    /\ Len(frames) >= 2
    /\ ~frames[Len(frames)].isGenerated
    /\ selectedFrame = frames[Len(frames)]
    /\ selectedFrame # frames[1]

\* C4: the frames of the gallery have pairwise distinct ids.
C4_DistinctIds ==
    \A i, k \in 1..Len(frames) : i # k => frames[i].id # frames[k].id

(***************************************************************************)
(* Generation job claims.                                                  *)
(***************************************************************************)
\* The job that ends in this step, if one does, is settled'
JobEnds(kind) == Len(jobs') < Len(jobs) /\ settled'.kind = kind

\* C5: an ImageGenerate call in which one of its 1..3 parallel requests fails
\* ends Failed; the step in which it ends shows no image and adds no frame.
C5_AllOrNothing ==
    [][(/\ JobEnds("ImageGenerate")
        /\ \E i \in 1..Len(settled'.subs) : settled'.subs[i] = "fail")
       => /\ settled'.status = "Failed"
          /\ generatedImages' = generatedImages
          /\ frames' = frames
          /\ settled'.live => (generatedImages' = <<>> /\ csAppState' = "ERROR")]_vars

\* The second of three requests failed after the first succeeded
C5_Witness ==
    /\ settled.kind = "ImageGenerate"
    /\ settled.subs = <<"ok", "fail", "pending">>
    /\ settled.status = "Failed"
    /\ settled.live
    /\ csAppState = "ERROR"
    /\ generatedImages = <<>>
    /\ frames = <<FrameA, FrameB>>

\* The video calls in flight and the last one that ended after its submit
VideoCalls ==
    {jobs[j] : j \in {k \in 1..Len(jobs) : jobs[k].kind = "VideoGenerate"}}
    \cup (IF settled.kind = "VideoGenerate" /\ settled.stage # "client" THEN {settled} ELSE {})

PollingDiscipline(job) ==
    \* one poll for each handle seen not done, the one of the running timer pending
    /\ job.notDone = job.polls + (IF job.pc = "wait" THEN 1 ELSE 0)
    \* a whole timer of PollIntervalSec seconds before each poll
    /\ job.waits = job.polls
    /\ job.waited = PollIntervalSec * job.polls
                     + (IF job.pc = "wait" THEN PollIntervalSec - job.timer ELSE 0)
    \* each poll answered brought one report; only the last one may say done
    /\ Len(job.pollReports) = job.polls - (IF job.pc = "poll" THEN 1 ELSE 0)
    /\ \A i \in 1..(Len(job.pollReports) - 1) : ~job.pollReports[i]
    /\ job.pc \in {"wait", "poll"} => \A i \in 1..Len(job.pollReports) : ~job.pollReports[i]
    /\ (job.status = "Succeeded" /\ job.polls > 0) => job.pollReports[Len(job.pollReports)]

\* C6: a video call issues one status poll for each handle it sees not done,
\* after a timer of 5 seconds each, none once done is seen; the polls of a call
\* that succeeded were answered not done, ..., not done, done.
C6_OnePollPerNotDone == \A job \in VideoCalls : PollingDiscipline(job)

\* Polls answered not done, not done, done: three polls, 15 s of timers, success
C6_Witness ==
    /\ settled.kind = "VideoGenerate"
    /\ settled.status = "Succeeded"
    /\ settled.pollReports = <<FALSE, FALSE, TRUE>>
    /\ settled.polls = 3
    /\ settled.waited = 3 * PollIntervalSec
    /\ generatedVideo

\* C7: a video call whose submit, poll or download raised an error with status
\* 403 or with "403" in its message ends with the permission-denied (billing)
\* error, and the view that started it shows the billing message.
C7_ForbiddenIsBilling ==
    [][(/\ JobEnds("VideoGenerate")
        /\ settled'.status = "Failed"
        /\ \/ settled'.raised.status = 403
           \/ Includes(settled'.raised.message, "403"))
       => /\ settled'.error = ErrPermissionDenied
          /\ settled'.live => (veoError' = BillingMsg /\ veoAppState' = "ERROR")]_vars

\* The download came back 403 Forbidden after a poll
C7_Witness ==
    /\ settled.kind = "VideoGenerate"
    /\ settled.stage = "download"
    /\ settled.polls >= 1
    /\ settled.raised = DownloadError("Forbidden", "403")
    /\ settled.error = ErrPermissionDenied
    /\ veoError = BillingMsg
    /\ veoAppState = "ERROR"

\* The Analyze call that ends in this step got a text that JSON.parse rejects
AnalyzeEndsOn(texts) ==
    /\ JobEnds("Analyze")
    /\ settled'.response.t = "text"
    /\ settled'.response.text \in texts
    /\ ~JSONParse(settled'.response.text).ok

Degraded ==
    /\ settled'.status = "Succeeded"
    /\ settled'.analysis.englishPrompt = settled'.response.text
    /\ settled'.analysis.chineseDescription = ParseFailedText
    /\ settled'.live => /\ englishPrompt' = settled'.response.text
                        /\ chineseDesc' = ParseFailedText
                        /\ csAppState' = "IDLE"

\* C8 as stated: every response text that is not valid JSON gives a succeeded
\* call with the raw text as englishPrompt and the parse-failure placeholder.
C8_AsStated == [][AnalyzeEndsOn(AnalyzeBodies) => Degraded]_vars

\* C8 amended: every non-empty response text that is not valid JSON gives a
\* succeeded call with the raw text as englishPrompt and the parse-failure
\* placeholder as chineseDescription.
C8_NonEmptyNonJsonDegrades == [][AnalyzeEndsOn(AnalyzeBodies \ {<<>>}) => Degraded]_vars

\* A truncated JSON text came back and is shown as the prompt
C8_Witness ==
    /\ settled.kind = "Analyze"
    /\ settled.response = TextResponse(BodyTruncated)
    /\ settled.status = "Succeeded"
    /\ englishPrompt = BodyTruncated
    /\ chineseDesc = ParseFailedText

(***************************************************************************)
(* Credential claims.                                                      *)
(***************************************************************************)
InvalidCandidate(key) == Trim(key) = <<>> \/ ~StartsWith(Trim(key), "AIza")

\* C9: a save of a key that is empty after trimming or lacks the prefix is
\* rejected with an error and leaves the persisted key as it was.
C9_InvalidSaveRejected ==
    [][(handleSaveApiKey /\ InvalidCandidate(apiKey))
       => /\ keyError' \in {"empty", "format"}
          /\ storedKey' = storedKey
          /\ showKeyInput']_vars

\* "not-a-key" was rejected; the key saved earlier is still the persisted one
C9_Witness ==
    /\ keyError = "format"
    /\ apiKey = <<"not-a-key">>
    /\ storedKey = <<"AIza", "k0">>
    /\ showKeyInput

ValidatedKey(key) == key = <<>> \/ (key = Trim(key) /\ StartsWith(key, "AIza"))

\* C10: the key a call is started with (the key in memory at that moment) is
\* empty or a value that passed the validation of a save.
C10_KeyPassedIsValidated ==
    /\ \A j \in 1..Len(jobs) : ValidatedKey(jobs[j].key)
    /\ settled # NoJob => ValidatedKey(settled.key)

(***************************************************************************)
(* The three kinds of call side by side, one call at a time, each request  *)
(* answered or failed by the service.  The user switches between the       *)
(* CREATIVE and the VEO step.                                              *)
(***************************************************************************)
\* An error whose text says permission denied but carries no 403
ErrDeniedNo403 == [status |-> 401, code |-> 0,
                   message |-> <<"Permission", "Denied", "for", "this", "key">>]

VendorErrors == RemoteErrors \cup {ErrDeniedNo403}

ErrorsInit == TwoFramesCaptured("CREATIVE") /\ envKey = NoKey

ErrorsNext ==
    \/ \E step \in {"CREATIVE", "VEO"} : SetStep(step)
    \/ \E i \in 1..2 : handleSelectFrame(i, FALSE)
    \/ TypePrompt(<<JW("typed"), JW("prompt")>>)
    \/ jobs = <<>> /\ handleAnalyze
    \/ \E resp \in {TextResponse(BodyFull)} \cup {Throw(e) : e \in VendorErrors} :
          AnalyzeSettle(1, resp)
    \/ jobs = <<>> /\ handleGenerate
    \/ \E resp \in {ImageOk, ImageNoData} \cup {Throw(e) : e \in VendorErrors},
          rnds \in SeqsUpTo3({"a"}) :
          ImageSubResponse(1, 1, resp, rnds, FALSE)
    \/ jobs = <<>> /\ handleGenerateVideo
    \/ \E resp \in {Handle(FALSE, FALSE), Handle(TRUE, TRUE)} \cup {Throw(e) : e \in VendorErrors} :
          VeoSubmitResponse(1, resp)
    \/ TimerTick(1)
    \/ \E resp \in Handles \cup {Throw(e) : e \in VendorErrors} : VeoPollResponse(1, resp)
    \/ \E resp \in {Fetched(TRUE, "OK", "200"), Fetched(FALSE, "Forbidden", "403"),
                    Fetched(FALSE, "Not Found", "404"), Throw(ErrFetch)} :
          VeoDownloadResponse(1, resp)

SpecErrors == ErrorsInit /\ [][ErrorsNext]_vars

(***************************************************************************)
(* Error surfacing claims.                                                 *)
(***************************************************************************)
\* The error the service call of a job caught
RaisedBy(job) == IF job.kind = "VideoGenerate" THEN job.raised ELSE job.error

\* A call started by a view that is still mounted fails in this step
FailsLive(kind) == JobEnds(kind) /\ settled'.status = "Failed" /\ settled'.live

Indicates403(e) == e.status = 403 \/ e.code = 403 \/ Includes(e.message, "403")

\* C11 as stated: a failure that indicates 403, in a call of any of the three
\* kinds, is shown to the user as the billing message.
C11_AsStated ==
    [][\A kind \in {"Analyze", "ImageGenerate", "VideoGenerate"} :
          (FailsLive(kind) /\ Indicates403(RaisedBy(settled')))
          => (IF kind = "VideoGenerate" THEN veoError' ELSE csError') = BillingMsg]_vars

\* C11 amended: only VideoGenerate classifies.  A failure that indicates 403
\* is shown as the billing message in a VideoGenerate call, and as the fixed
\* failure text of the kind in an Analyze or ImageGenerate call.
C11_OnlyVideoClassifies403 ==
    [][\A kind \in {"Analyze", "ImageGenerate", "VideoGenerate"} :
          (FailsLive(kind) /\ Indicates403(RaisedBy(settled')))
          => CASE kind = "VideoGenerate" -> veoError' = BillingMsg /\ veoAppState' = "ERROR"
               [] kind = "Analyze" -> csError' = AnalyzeFailedMsg /\ csAppState' = "ERROR"
               [] kind = "ImageGenerate" -> csError' = GenerateFailedMsg /\ csAppState' = "ERROR"]_vars

\* An image request failed with status 403 and the fixed text is shown
C11_Witness ==
    /\ settled.kind = "ImageGenerate"
    /\ settled.status = "Failed"
    /\ settled.error = Err403Status
    /\ settled.live
    /\ csError = GenerateFailedMsg
    /\ csAppState = "ERROR"

\* C12 as stated: a remote failure that does not indicate 403, in a call of
\* any of the three kinds, is shown with the message of the error unchanged.
C12_AsStated ==
    [][\A kind \in {"Analyze", "ImageGenerate", "VideoGenerate"} :
          (FailsLive(kind) /\ RaisedBy(settled') \in VendorErrors
             /\ ~Indicates403(RaisedBy(settled')))
          => (IF kind = "VideoGenerate" THEN veoError' ELSE csError')
                = RaisedBy(settled').message]_vars

\* C12 amended: a failure that does not indicate 403 is shown unchanged only
\* by VideoGenerate, and only if its message is not empty and does not
\* include "Permission Denied"; VideoGenerate shows a fixed fallback text for
\* an empty message and the billing message for "Permission Denied"; Analyze
\* and ImageGenerate show the fixed failure text of the kind.
C12_VendorMessageOnlyInVideo ==
    [][\A kind \in {"Analyze", "ImageGenerate", "VideoGenerate"} :
          (FailsLive(kind) /\ RaisedBy(settled') \in VendorErrors
             /\ ~Indicates403(RaisedBy(settled')))
          => LET msg == RaisedBy(settled').message IN
             CASE kind = "VideoGenerate" ->
                    veoError' = IF msg = <<>> THEN VideoFailedMsg
                                ELSE IF IncludesSeq(msg, <<"Permission", "Denied">>)
                                THEN BillingMsg ELSE msg
               [] kind = "Analyze" -> csError' = AnalyzeFailedMsg
               [] kind = "ImageGenerate" -> csError' = GenerateFailedMsg]_vars

\* A poll failed with a server error and its message is shown
C12_Witness ==
    /\ settled.kind = "VideoGenerate"
    /\ settled.status = "Failed"
    /\ settled.stage = "poll"
    /\ settled.raised = Err500
    /\ settled.live
    /\ veoError = Err500.message
    /\ veoAppState = "ERROR"

(***************************************************************************)
(* The key form next to both studios: the key is edited, saved or          *)
(* cancelled while analyses and videos are started with the key in memory. *)
(***************************************************************************)
KeyCallsInit == TwoFramesCaptured("CREATIVE")

KeyCallsNext ==
    \/ OpenKeyInput
    \/ \E v \in KeyInputs : TypeKey(v)
    \/ handleSaveApiKey
    \/ handleCancelKeyInput
    \/ \E step \in {"CREATIVE", "VEO"} : SetStep(step)
    \/ jobs = <<>> /\ handleAnalyze
    \/ AnalyzeSettle(1, TextResponse(BodyFull))
    \/ jobs = <<>> /\ handleGenerateVideo
    \/ VeoSubmitResponse(1, Handle(TRUE, TRUE))
    \/ VeoDownloadResponse(1, Fetched(TRUE, "OK", "200"))

SpecKeyCalls == KeyCallsInit /\ [][KeyCallsNext]_vars

(***************************************************************************)
(* Credential resolution claims.                                           *)
(***************************************************************************)
\* One of the three handlers that call the service runs in this step
CallStarts == handleAnalyze \/ handleGenerate \/ handleGenerateVideo

\* The call started in this step resolves its key to want, or fails with the
\* missing-key error when want is empty
ResolvesTo(want) ==
    IF want = <<>>
    THEN jobs' = jobs /\ settled'.error = ErrMissingKey
    ELSE Len(jobs') > Len(jobs) /\ jobs'[Len(jobs')].effectiveKey = want

FirstCallsInit == Init /\ envKey = NoKey

FirstCallsNext ==
    \/ SetVideoSrc("blob")
    \/ captureFrame("a")
    \/ \E i \in 1..MaxFrames : handleSelectFrame(i, FALSE)
    \/ \E i \in 1..MaxFrames : DeleteFrame(i)
    \/ \E step \in Steps : SetStep(step)
    \/ TypePrompt(<<JW("typed"), JW("prompt")>>)
    \/ jobs = <<>> /\ handleAnalyze
    \/ \E resp \in {TextResponse(BodyFull), Throw(Err500)} : AnalyzeSettle(1, resp)
    \/ jobs = <<>> /\ handleGenerate
    \/ \E resp \in {ImageOk, Throw(Err500)}, rnds \in SeqsUpTo3({"a"}) :
          ImageSubResponse(1, 1, resp, rnds, FALSE)
    \/ jobs = <<>> /\ handleGenerateVideo
    \/ \E resp \in {Handle(TRUE, TRUE), Throw(Err500)} : VeoSubmitResponse(1, resp)
    \/ \E resp \in {Fetched(TRUE, "OK", "200"), Throw(ErrFetch)} : VeoDownloadResponse(1, resp)

SpecFirstCalls == FirstCallsInit /\ [][FirstCallsNext]_vars

(***************************************************************************)
(* Precondition claims.                                                    *)
(***************************************************************************)
\* C14: a handler run without a resolvable key ends its call with the
\* missing-key error before any request is issued, and no video call is
\* started while the start slot is empty; every call in flight has a key.
C14_NoRequestWithoutPrecondition ==
    [][/\ (CallStarts /\ Trim(apiKey) = <<>> /\ envKey = <<>>)
            => /\ jobs' = jobs
               /\ settled'.status = "Failed"
               /\ settled'.error = ErrMissingKey
               /\ settled'.requests = 0
       /\ (currentStep = "VEO" /\ startFrame = NoFrame)
            => (Len(jobs') <= Len(jobs) /\ ~CallStarts)
       /\ \A j \in 1..Len(jobs') :
            jobs'[j].requests >= 1 /\ jobs'[j].effectiveKey # <<>>]_vars

\* A video call ended with the missing-key error without a request
C14_Witness ==
    /\ settled.kind = "VideoGenerate"
    /\ settled.status = "Failed"
    /\ settled.error = ErrMissingKey
    /\ settled.requests = 0
    /\ jobs = <<>>
    /\ startFrame # NoFrame
    /\ veoAppState = "ERROR"

(***************************************************************************)
(* Job lifecycle claims.                                                   *)
(***************************************************************************)
JobKinds == {"Analyze", "ImageGenerate", "VideoGenerate"}

\* The view of a kind of call is in its error state and shows a message
ViewShowsError(kind) ==
    IF kind = "VideoGenerate"
    THEN veoAppState' = "ERROR" /\ veoError' # <<>>
    ELSE csAppState' = "ERROR" /\ csError' # <<>>

\* C15: a call that fails, by an error of a remote request or by the missing
\* key, ends as Failed with the error caught; the view that started it, if
\* still mounted, is then in its error state with a non-empty message, and a
\* view mounted since is left as it is.
C15_FailureEndsInErrorState ==
    [][/\ \A kind \in JobKinds :
            (JobEnds(kind) /\ settled'.status = "Failed")
            => /\ RaisedBy(settled') # NoErr
               /\ IF settled'.live THEN ViewShowsError(kind)
                  ELSE UNCHANGED <<csVars, veoVars>>
       /\ (CallStarts /\ Trim(apiKey) = <<>> /\ envKey = <<>>)
            => ViewShowsError(settled'.kind)]_vars

\* The submit of a video call threw an error without a message and the
\* fallback text is shown
C15_Witness ==
    /\ settled.kind = "VideoGenerate"
    /\ settled.status = "Failed"
    /\ settled.raised = ErrNoMessage
    /\ settled.live
    /\ veoAppState = "ERROR"
    /\ veoError = VideoFailedMsg


(***************************************************************************)
(* The requests of a call.  Both studios are used, with batches of one or  *)
(* two images; each request succeeds or fails with a server error.         *)
(***************************************************************************)
RequestsInit == TwoFramesCaptured("CREATIVE") /\ envKey = NoKey

RequestsNext ==
    \/ \E step \in {"CREATIVE", "VEO"} : SetStep(step)
    \/ TypePrompt(<<JW("typed"), JW("prompt")>>)
    \/ \E n \in 1..2 : SetImageCount(n)
    \/ jobs = <<>> /\ handleAnalyze
    \/ \E resp \in {TextResponse(BodyFull), Throw(Err500)} : AnalyzeSettle(1, resp)
    \/ jobs = <<>> /\ handleGenerate
    \/ \E i \in 1..2, resp \in {ImageOk, Throw(Err500)}, rnds \in SeqsUpTo3({"a"}) :
          ImageSubResponse(1, i, resp, rnds, FALSE)
    \/ jobs = <<>> /\ handleGenerateVideo
    \/ \E resp \in {Handle(FALSE, FALSE), Handle(TRUE, TRUE), Throw(Err500)} :
          VeoSubmitResponse(1, resp)
    \/ TimerTick(1)
    \/ \E resp \in {Handle(FALSE, FALSE), Handle(TRUE, TRUE), Throw(Err500)} :
          VeoPollResponse(1, resp)
    \/ \E resp \in {Fetched(TRUE, "OK", "200"), Fetched(FALSE, "Not Found", "404")} :
          VeoDownloadResponse(1, resp)

SpecRequests == RequestsInit /\ [][RequestsNext]_vars

\* The requests a call has issued are the ones its own progress asks for:
\* one analysis, one request per image, one video submission followed by the
\* polls of its loop and the download
RequestsAccounted(job) ==
    CASE job.kind = "Analyze"       -> job.requests = 1
      [] job.kind = "ImageGenerate" -> job.requests = Len(job.subs)
      [] job.kind = "VideoGenerate" ->
            job.requests = 1 + job.polls + (IF job.pc = "download" THEN 1 ELSE 0)
      [] OTHER -> job.requests = 0

\* C16: a user action that starts a call issues one Analyze request,
\* imageCount ImageGenerate requests or one VideoGenerate submission; no step
\* other than a user action starts a call; a call that ends, failed or not,
\* leaves the calls in flight with the requests it had issued, and no call in
\* flight ever holds a request beyond those of its own progress.
C16_NoAutomaticRetry ==
    [][/\ (CallStarts /\ Len(jobs') > Len(jobs))
            => LET job == jobs'[Len(jobs')] IN
                 /\ job.requests = (IF job.kind = "ImageGenerate" THEN imageCount ELSE 1)
                 /\ job.kind = "VideoGenerate" => (job.pc = "submit" /\ job.polls = 0)
       /\ ~CallStarts => Len(jobs') <= Len(jobs)
       /\ (settled' # settled /\ ~CallStarts)
            => /\ Len(jobs') = Len(jobs) - 1
               /\ \E j \in 1..Len(jobs) :
                     /\ jobs' = SubSeq(jobs, 1, j - 1) \o SubSeq(jobs, j + 1, Len(jobs))
                     /\ settled'.requests = jobs[j].requests
       /\ \A j \in 1..Len(jobs') : RequestsAccounted(jobs'[j])
       /\ (jobs = <<>> /\ ~CallStarts) => jobs' = <<>>]_vars

\* A batch of two images failed on its first answer: two requests were
\* issued, nothing is in flight and the view shows the error
C16_Witness ==
    /\ settled.kind = "ImageGenerate"
    /\ settled.status = "Failed"
    /\ settled.requests = 2
    /\ jobs = <<>>
    /\ csAppState = "ERROR"


(***************************************************************************)
(* The life of a call: the calls of both studios, and the answers that     *)
(* reach a batch of images after it has failed.                            *)
(***************************************************************************)
LifecycleNext ==
    \/ RequestsNext
    \/ \E i \in 1..2, resp \in {ImageOk, ImageNoData, Throw(Err500)} : ImageLateResponse(i, resp)

SpecLifecycle == RequestsInit /\ [][LifecycleNext]_vars

Terminal == {"Succeeded", "Failed"}

OutstandingPolls(job) == job.polls - Len(job.pollReports)

\* C18: in a video call a status poll is issued only by the timer of 5 seconds
\* running out, that timer is started only when the submit or the previous
\* poll has returned, and so at most one poll of the call is outstanding.
C18_PollsSequential ==
    [][\A j \in 1..Len(jobs') :
          LET new == jobs'[j] IN
          new.kind = "VideoGenerate" =>
            /\ OutstandingPolls(new) = (IF new.pc = "poll" THEN 1 ELSE 0)
            /\ (Len(jobs') = Len(jobs) /\ new.polls # jobs[j].polls)
                 => /\ new.polls = jobs[j].polls + 1
                    /\ OutstandingPolls(jobs[j]) = 0
                    /\ jobs[j].pc = "wait"
                    /\ jobs[j].timer = 1
                    /\ new.waited = PollIntervalSec * new.polls
            /\ (Len(jobs') = Len(jobs) /\ new.pc = "wait" /\ jobs[j].pc # "wait")
                 => /\ jobs[j].pc \in {"submit", "poll"}
                    /\ new.timer = PollIntervalSec
                    /\ new.polls = jobs[j].polls
                    /\ OutstandingPolls(new) = 0]_vars

\* The second poll is outstanding: the first was answered, and two timers of
\* 5 seconds have run out
C18_Witness ==
    \E j \in 1..Len(jobs) :
        /\ jobs[j].kind = "VideoGenerate"
        /\ jobs[j].pc = "poll"
        /\ jobs[j].polls = 2
        /\ jobs[j].pollReports = <<FALSE>>
        /\ jobs[j].waited = 2 * PollIntervalSec


(***************************************************************************)
(* The polling loop to its end.  Every request of the call may throw; a    *)
(* timer that was set fires and a download that was started is answered.   *)
(***************************************************************************)
PollingFairNext ==
    \/ \E step \in {"CAPTURE", "VEO"} : SetStep(step)
    \/ jobs = <<>> /\ handleGenerateVideo
    \/ \E resp \in Handles \cup {Throw(Err500)} : VeoSubmitResponse(1, resp)
    \/ TimerTick(1)
    \/ \E resp \in Handles \cup {Throw(Err500)} : VeoPollResponse(1, resp)
    \/ \E resp \in {Fetched(TRUE, "OK", "200"), Fetched(FALSE, "Not Found", "404"),
                    Throw(ErrFetch)} :
          VeoDownloadResponse(1, resp)

DownloadAnswered ==
    \E resp \in {Fetched(TRUE, "OK", "200"), Fetched(FALSE, "Not Found", "404"),
                 Throw(ErrFetch)} :
        VeoDownloadResponse(1, resp)

SpecPollingFair ==
    /\ VeoInit
    /\ [][PollingFairNext]_vars
    /\ WF_vars(TimerTick(1))
    /\ WF_vars(DownloadAnswered)

\* The video call in flight is at pc
VideoAt(pc) == jobs # <<>> /\ jobs[1].kind = "VideoGenerate" /\ jobs[1].pc = pc

\* The step ends the video call in flight
VideoEnds == jobs # <<>> /\ jobs' = <<>> /\ jobs[1].kind = "VideoGenerate"

CaptureNext ==
    \/ Tick
    \/ \E src \in {"none", "blob", "url"} : SetVideoSrc(src)
    \/ \E rnd \in RandSuffixes : captureFrame(rnd)
    \/ captureFrameThrows
    \/ \E i \in 1..MaxFrames : handleSelectFrame(i, FALSE)
    \/ \E i \in 1..MaxFrames : DeleteFrame(i)
    \/ \E step \in {"CAPTURE", "CREATIVE"} : SetStep(step)

SpecCapture == GalleryInit /\ [][CaptureNext]_vars

\* C20: a capture whose pixel readback throws shows one alert and changes
\* nothing else: the gallery, the selection and the step are what they were,
\* and every other step shows no alert.
C20_FailedCaptureLeavesGallery ==
    [][/\ captureFrameThrows
            => /\ alerts' = alerts + 1
               /\ frames' = frames
               /\ selectedFrame' = selectedFrame
               /\ currentStep' = currentStep
       /\ alerts' # alerts
            => /\ alerts' = alerts + 1
               /\ frames' = frames
               /\ selectedFrame' = selectedFrame
       /\ frames' # frames => alerts' = alerts]_vars

\* A capture failed with two frames in the gallery and the second selected
C20_Witness ==
    /\ alerts = 1
    /\ Len(frames) = 2
    /\ selectedFrame = frames[2]
    /\ selectedFrame # frames[1]
    /\ videoSrc = "url"
    /\ currentStep = "CAPTURE"


(***************************************************************************)
(* The gallery operations of App as its children may call them: capture,   *)
(* select, delete, and onImageSaved with or without a selected frame.      *)
(***************************************************************************)
GalleryOpsNext ==
    \/ Tick
    \/ \E src \in {"none", "blob"} : SetVideoSrc(src)
    \/ \E rnd \in RandSuffixes : captureFrame(rnd)
    \/ \E i \in 1..MaxFrames : handleSelectFrame(i, FALSE)
    \/ \E i \in 1..MaxFrames : DeleteFrame(i)
    \/ \E step \in {"CAPTURE", "CREATIVE"} : SetStep(step)
    \/ \E rnd \in RandSuffixes : onImageSaved([id |-> generateId("img", rnd)])

SpecGalleryOps == GalleryInit /\ [][GalleryOpsNext]_vars

\* The step imports a generated image
Imports ==
    /\ Len(frames') = Len(frames) + 1
    /\ frames'[1].isGenerated
    /\ Tail(frames') = frames

NavigateNext ==
    \/ \E step \in Steps : SetStep(step)
    \/ handleAnalyze
    \/ \E j \in 1..MaxJobs, resp \in {TextResponse(BodyFull), Throw(Err500)} : AnalyzeSettle(j, resp)
    \/ handleGenerateVideo
    \/ \E j \in 1..MaxJobs, resp \in {Handle(TRUE, TRUE), Throw(Err500)} : VeoSubmitResponse(j, resp)
    \/ \E j \in 1..MaxJobs, resp \in {Fetched(TRUE, "OK", "200"), Fetched(FALSE, "Not Found", "404")} :
          VeoDownloadResponse(j, resp)

SpecNavigate == RequestsInit /\ [][NavigateNext]_vars

\* The step in which the view that starts calls of a kind is shown
StepOf(kind) == IF kind = "VideoGenerate" THEN "VEO" ELSE "CREATIVE"

\* C22: leaving a step ends none of the calls in flight; the calls its view
\* started go on without it, and from then on none of them reaches a view
\* again: the step in which such a call returns or throws changes nothing in
\* Creative Studio or Veo Studio, whether the view has been opened again and
\* has a call of its own or not.
C22_LeftViewResultDiscarded ==
    [][/\ \A kind \in JobKinds :
            (JobEnds(kind) /\ ~settled'.live) => UNCHANGED <<csVars, veoVars>>
       /\ currentStep' # currentStep
            => /\ Len(jobs') = Len(jobs)
               /\ \A j \in 1..Len(jobs) :
                     jobs'[j] = [jobs[j] EXCEPT
                                   !.live = jobs[j].live /\ StepOf(jobs[j].kind) # currentStep]
       /\ Len(jobs') = Len(jobs)
            => \A j \in 1..Len(jobs) : ~jobs[j].live => ~jobs'[j].live
       /\ \A j \in 1..Len(jobs') : jobs'[j].live => StepOf(jobs'[j].kind) = currentStep']_vars

\* The user left Veo Studio with a video in the making, came back and
\* started another; the first one failed and the view is still generating,
\* without an error
C22_Witness ==
    /\ currentStep = "VEO"
    /\ settled.kind = "VideoGenerate"
    /\ ~settled.live
    /\ settled.status = "Failed"
    /\ Len(jobs) = 1
    /\ jobs[1].live
    /\ veoAppState = "GENERATING"
    /\ veoError = <<>>


(***************************************************************************)
(* Interleavings inside a mounted view: the user selects frames and starts *)
(* calls while earlier calls of the same view are not back yet; up to      *)
(* MaxJobs calls are in flight and are answered in any order.              *)
(***************************************************************************)
InterleaveNext ==
    \/ \E i \in 1..2 : handleSelectFrame(i, FALSE)
    \/ \E step \in {"CREATIVE", "VEO"} : SetStep(step)
    \/ TypePrompt(<<JW("typed"), JW("prompt")>>)
    \/ handleAnalyze
    \/ \E j \in 1..MaxJobs, resp \in {TextResponse(BodyFull), Throw(Err500)} : AnalyzeSettle(j, resp)
    \/ handleGenerate
    \/ \E j \in 1..MaxJobs, resp \in {ImageOk, Throw(Err500)}, rnds \in SeqsUpTo3({"a"}) :
          ImageSubResponse(j, 1, resp, rnds, FALSE)
    \/ handleGenerateVideo
    \/ \E j \in 1..MaxJobs, resp \in {Handle(TRUE, TRUE), Throw(Err500)} : VeoSubmitResponse(j, resp)
    \/ \E j \in 1..MaxJobs, resp \in {Fetched(TRUE, "OK", "200"), Fetched(FALSE, "Not Found", "404")} :
          VeoDownloadResponse(j, resp)

SpecInterleave == RequestsInit /\ [][InterleaveNext]_vars

\* C23: in each studio an error message is present only while the state of
\* the view is ERROR: none while a call is running, none after the last call
\* succeeded.
C23_ErrorOnlyInErrorState ==
    /\ csError # <<>> => csAppState = "ERROR"
    /\ veoError # <<>> => veoAppState = "ERROR"
    /\ (csAppState = "ERROR" /\ currentStep = "CREATIVE")
         => \A j \in 1..Len(jobs) : ~(jobs[j].live /\ jobs[j].kind \in CreativeKinds)


(***************************************************************************)
(* The aspect ratio of a video: the user picks one of VEO_RATIOS, the      *)
(* service buckets what it is given.                                       *)
(***************************************************************************)
AspectNext ==
    \/ \E r \in VEO_RATIOS : SetAspectRatio(r)
    \/ \E i \in 1..2 : handleSelectFrame(i, FALSE)
    \/ \E step \in {"CAPTURE", "VEO"} : SetStep(step)
    \/ jobs = <<>> /\ handleGenerateVideo
    \/ \E resp \in {Handle(FALSE, FALSE), Handle(TRUE, TRUE), Throw(Err500)} :
          VeoSubmitResponse(1, resp)
    \/ TimerTick(1)
    \/ \E resp \in {Handle(FALSE, FALSE), Handle(TRUE, TRUE)} : VeoPollResponse(1, resp)
    \/ \E resp \in {Fetched(TRUE, "OK", "200"), Fetched(FALSE, "Not Found", "404")} :
          VeoDownloadResponse(1, resp)

SpecAspect == VeoInit /\ [][AspectNext]_vars

\* The ratios the application knows (RATIOS of CreativeStudio)
RatioInputs == {"16:9", "9:16", "4:3", "3:4", "1:1"}

Buckets == {"16:9", "9:16"}

\* C24: the service maps "9:16" and "3:4" to "9:16" and each of "16:9",
\* "4:3", "1:1" to "16:9", and maps a bucket to itself; a video call is
\* submitted with the bucket of the ratio the view holds when it starts.
C24_BucketingTotalIdempotent ==
    [][/\ \A r \in RatioInputs :
            /\ TargetAspectRatio(r) \in Buckets
            /\ TargetAspectRatio(r) = (IF r \in {"9:16", "3:4"} THEN "9:16" ELSE "16:9")
            /\ TargetAspectRatio(TargetAspectRatio(r)) = TargetAspectRatio(r)
       /\ \A b \in Buckets : TargetAspectRatio(b) = b
       /\ Len(jobs') > Len(jobs)
            => /\ jobs'[Len(jobs')].aspect = (IF veoAspect \in {"9:16", "3:4"} THEN "9:16" ELSE "16:9")
               /\ jobs'[Len(jobs')].aspect \in Buckets
       /\ \A j \in 1..Len(jobs) : Len(jobs') = Len(jobs) => jobs'[j].aspect = jobs[j].aspect]_vars

\* A portrait video is in the making while the view is back on landscape
C24_Witness ==
    /\ jobs # <<>>
    /\ jobs[1].kind = "VideoGenerate"
    /\ jobs[1].aspect = "9:16"
    /\ jobs[1].pc = "wait"
    /\ veoAspect = "16:9"


(***************************************************************************)
(* Ids of captured frames.                                                 *)
(***************************************************************************)
\* C25: the id of a captured frame differs from the id of every frame
\* captured before it that the gallery still holds, also when the clock has
\* not advanced between the two captures.
C25_CaptureIdsDistinct ==
    [][IsCaptureStep => \A i \in 1..Len(frames) : frames[i].id # frames'[Len(frames')].id]_vars


(***************************************************************************)
(* Order of the gallery.                                                   *)
(***************************************************************************)
\* The positions of the frames that do not have the id
KeptPositions(id) == {i \in 1..Len(frames) : frames[i].id # id}

\* frames' is frames without the frames of the id, the others in their order
RemovesId(id) ==
    /\ Len(frames') = Cardinality(KeptPositions(id))
    /\ \A i \in KeptPositions(id) :
          frames'[Cardinality({k \in KeptPositions(id) : k <= i})] = frames[i]

\* C26: a capture puts the new frame behind the frames of the gallery, which
\* stay as they are; a delete takes out the frames of one id and leaves the
\* others in their order, and leaves the selection as it is unless the
\* selected frame has that id.
C26_InsertionOrderKept ==
    [][/\ (Len(frames') = Len(frames) + 1 /\ currentStep = "CAPTURE")
            => (SubSeq(frames', 1, Len(frames)) = frames /\ ~frames'[Len(frames')].isGenerated)
       /\ Len(frames') < Len(frames)
            => \E i \in 1..Len(frames) :
                  /\ RemovesId(frames[i].id)
                  /\ (selectedFrame = NoFrame \/ selectedFrame.id # frames[i].id)
                       => selectedFrame' = selectedFrame
       /\ Len(frames') = Len(frames) => frames' = frames]_vars

\* Three frames in the order of their capture, the last capture selected
C26_Witness ==
    /\ Len(frames) = 3
    /\ \A i \in 1..3 : ~frames[i].isGenerated
    /\ frames[1].id.t = 0
    /\ frames[3].id.t = 1
    /\ frames[1].id # frames[2].id
    /\ selectedFrame = frames[3]
    /\ selectedFrame # frames[1]


(***************************************************************************)
(* Calls that return after the selection has moved on.                     *)
(***************************************************************************)
\* C27: an analysis that returns when the frame selected is not the frame
\* whose image it was sent writes neither the description, nor the prompt,
\* nor the images of the view.
C27_ResultForSelectedFrameOnly ==
    [][\A j \in 1..Len(jobs) :
          (/\ jobs[j].kind = "Analyze"
           /\ jobs' = SubSeq(jobs, 1, j - 1) \o SubSeq(jobs, j + 1, Len(jobs))
           /\ jobs[j].frame # selectedFrame)
          => UNCHANGED <<englishPrompt, chineseDesc, generatedImages>>]_vars


\* The calls in flight that the mounted view of the kinds has started
LiveCalls(kinds) == {j \in 1..Len(jobs) : jobs[j].live /\ jobs[j].kind \in kinds}

\* C28: the mounted Creative Studio has at most one call in flight, and so
\* has the mounted Veo Studio.
C28_OneCallPerView ==
    /\ Cardinality(LiveCalls(CreativeKinds)) <= 1
    /\ Cardinality(LiveCalls(VeoKinds)) <= 1


(***************************************************************************)
(* The frame slots of Veo Studio.                                          *)
(***************************************************************************)
\* C29: the X of the end slot leaves the end slot empty; a click on a slot
\* changes the active slot and the content of neither slot; a video call
\* started while the end slot is empty carries no end image.
C29_ClearedEndSlotStaysEmpty ==
    [][/\ clearEndFrame => endFrame' = NoFrame
       /\ (\E slot \in {"start", "end"} : SetActiveSlot(slot))
            => (startFrame' = startFrame /\ endFrame' = endFrame)
       /\ (handleGenerateVideo /\ endFrame = NoFrame /\ Len(jobs') > Len(jobs))
            => ~jobs'[Len(jobs')].endImage]_vars


(***************************************************************************)
(* The credential form.                                                    *)
(***************************************************************************)
\* C30: the key in localStorage is absent or a key that is not empty, has no
\* blank at either end and starts with "AIza"; while the key editor is
\* closed the key in memory is the one in localStorage (empty when there is
\* none).
C30_PersistedKeyValidAndInSync ==
    /\ \/ storedKey = NoKey
       \/ /\ storedKey # <<>>
          /\ Trim(storedKey) = storedKey
          /\ StartsWith(storedKey, "AIza")
    /\ ~showKeyInput => apiKey = storedKey

\* A key typed with blanks around it was saved over the key of an earlier
\* visit: the editor is closed, memory and localStorage hold the trimmed key
C30_Witness ==
    /\ ~showKeyInput
    /\ storedKey = <<"AIza", "k2">>
    /\ apiKey = storedKey
    /\ keyError = NoKeyError

====
